---- MODULE Spec2Model ----
(***************************************************************************)
(* A model of src/src/lib.rs: the chunk reader loop of process_file, the   *)
(* rayon scope that runs process_batch on every dispatched batch, the      *)
(* merge of the LocalTables into the MasterTable and the report writer,    *)
(* with parse_i32, split_line, Data::update, Data::union and the Display   *)
(* of Data as operators.  Text is modelled as sequences of byte values.    *)
(***************************************************************************)
EXTENDS Integers, Sequences, FiniteSets, TLC

VARIABLES
    input,            \* the bytes of the file behind `reader`
    read_size,        \* the limit given to take() at each pull
    overflow_checks,  \* TRUE: arithmetic overflow panics; FALSE: it wraps
    pos,              \* how many bytes of the file the reader has consumed
    remainder,        \* the Vec `remainder`
    pc,               \* where the thread that called process_file stands
    dispatched,       \* every batch handed to s.spawn, in dispatch order
    pending,          \* spawned jobs no worker has started (ids into dispatched)
    running,          \* the jobs a worker of the pool is running
    job_panicked,     \* the jobs whose closure panicked
    results,          \* the SegQueue `results`: LocalTables in push order
    master_map,       \* the HashMap `master_map`
    output,           \* the bytes written to stdout
    value,            \* parse_i32 alone: its argument
    parsed,           \* parse_i32 alone: what the call produced
    acc,              \* Data alone: the aggregate a fold is building
    exact,            \* Data alone: the mathematical sum of what acc holds
    steps,            \* Data alone: how many update/union calls were applied
    batch_arg,        \* process_batch alone: its argument
    batch_out,        \* process_batch alone: what the call produced
    union_args,       \* Data::union alone: the aggregates A, B and C
    union_out         \* Data::union alone: what the three groupings produced

vars == <<input, read_size, overflow_checks, pos, remainder, pc, dispatched,
          pending, running, job_panicked, results, master_map, output,
          value, parsed, acc, exact, steps, batch_arg, batch_out, union_args,
          union_out>>

(***************************************************************************)
(* Byte values the code names.                                             *)
(***************************************************************************)
NEWLINE == 10
LINE_DELIMITER == 59
MINUS_SIGN == 45
DECIMAL_POINT == 46
DIGIT_ZERO == 48
SLASH == 47
BRACE_OPEN == 123
BRACE_CLOSE == 125
EQUALS_SIGN == 61
COMMA == 44
SPACE == 32

\* b & 0b1100_0000 == 0b1000_0000
IsContinuation(b) == (b \div 64) = 2

(***************************************************************************)
(* Sequence helpers.                                                       *)
(***************************************************************************)
Take(s, n) == SubSeq(s, 1, n)
Drop(s, n) == SubSeq(s, n + 1, Len(s))

\* Iterator::rposition / str::rfind of one byte: the last index holding b, 0 for None.
RPosition(s, b) ==
    LET hits == {i \in 1..Len(s) : s[i] = b}
    IN  IF hits = {} THEN 0 ELSE CHOOSE i \in hits : \A j \in hits : j <= i

RECURSIVE Concat(_)
Concat(ss) == IF ss = <<>> THEN <<>> ELSE Head(ss) \o Concat(Tail(ss))

(***************************************************************************)
(* i32 arithmetic.  A sum or product that leaves the i32 range panics when *)
(* overflow checks are compiled in and wraps modulo 2^32 otherwise.  The   *)
(* wrapped result is computed without leaving the range itself.            *)
(***************************************************************************)
MaxI32 == 2147483647
MinI32 == (-MaxI32) - 1

AddOverflows(a, b) ==
    \/ b > 0 /\ a > MaxI32 - b
    \/ b < 0 /\ a < MinI32 - b

WrappingAdd(a, b) ==
    IF b > 0 /\ a > MaxI32 - b THEN (a + MinI32) + (b + MinI32)
    ELSE IF b < 0 /\ a < MinI32 - b THEN (a - MinI32) + (b - MinI32)
    ELSE a + b

\* k * x for a small k >= 0, as k wrapping additions of x.
RECURSIVE WrappingMul(_, _)
WrappingMul(k, x) == IF k = 0 THEN 0 ELSE WrappingAdd(WrappingMul(k - 1, x), x)

\* The partial sums of k * x move one way, so the product overflows exactly
\* when one of them does.
RECURSIVE MulOverflows(_, _)
MulOverflows(k, x) ==
    IF k = 0 THEN FALSE
    ELSE MulOverflows(k - 1, x) \/ AddOverflows(WrappingMul(k - 1, x), x)

WrappingSub(a, b) ==
    IF b = MinI32 THEN (IF a >= 0 THEN a + MinI32 ELSE a - MinI32)
    ELSE WrappingAdd(a, -b)

SubOverflows(a, b) == IF b = MinI32 THEN a >= 0 ELSE AddOverflows(a, -b)

\* count is a u32; the counts of this model stay far below 2^32, where it wraps.
AddU32(a, b) == a + b

(***************************************************************************)
(* split_line and parse_i32.                                               *)
(***************************************************************************)
\* Option<(&str, &str)>: found = FALSE is None.
split_line(line) ==
    LET delimiter == RPosition(line, LINE_DELIMITER)
    IN  IF delimiter = 0
        THEN [found |-> FALSE, station |-> <<>>, value_str |-> <<>>]
        ELSE [found |-> TRUE,
              station |-> Take(line, delimiter - 1),
              value_str |-> Drop(line, delimiter)]

\* char::to_digit(10): a decimal digit's value, -1 for None.
ToDigit(c) == IF c >= DIGIT_ZERO /\ c <= DIGIT_ZERO + 9 THEN c - DIGIT_ZERO ELSE -1

\* The body of both for loops of parse_i32, from the character at index i down to
\* index lo.  Every character of a value that reaches to_digit is either a
\* decimal digit or makes unwrap panic, a multi-byte character included, so the
\* walk over characters is a walk over bytes.
RECURSIVE ParseLoop(_, _, _, _, _, _, _)
ParseLoop(v, i, lo, negative, result, place_value, chk) ==
    IF i < lo THEN [panicked |-> FALSE, result |-> result]
    ELSE IF v[i] = DECIMAL_POINT
    THEN ParseLoop(v, i - 1, lo, negative, result, place_value, chk)
    ELSE LET digit == ToDigit(v[i])
             term == WrappingMul(digit, place_value)
         IN  IF digit < 0 THEN [panicked |-> TRUE, result |-> 0]
             ELSE IF chk /\ ( \/ MulOverflows(digit, place_value)
                              \/ (IF negative THEN SubOverflows(result, term)
                                              ELSE AddOverflows(result, term))
                              \/ MulOverflows(10, place_value) )
             THEN [panicked |-> TRUE, result |-> 0]
             ELSE ParseLoop(v, i - 1, lo, negative,
                            IF negative THEN WrappingSub(result, term)
                                        ELSE WrappingAdd(result, term),
                            WrappingMul(10, place_value), chk)

\* parse_i32 with the test of the leading minus lost: the sign is skipped and the
\* digits are added.
parse_i32_Unsigned(v, chk) ==
    IF Len(v) = 0 THEN [panicked |-> TRUE, result |-> 0]
    ELSE IF v[1] = MINUS_SIGN THEN ParseLoop(v, Len(v), 2, FALSE, 0, 1, chk)
    ELSE ParseLoop(v, Len(v), 1, FALSE, 0, 1, chk)

\* parse_i32: value.as_bytes()[0] panics on an empty value; with a leading minus
\* the reversed characters are cut before the first one (take(len - 1)).
parse_i32(v, chk) ==
    IF Len(v) = 0 THEN [panicked |-> TRUE, result |-> 0]
    ELSE IF v[1] = MINUS_SIGN THEN ParseLoop(v, Len(v), 2, TRUE, 0, 1, chk)
    ELSE ParseLoop(v, Len(v), 1, FALSE, 0, 1, chk)

(***************************************************************************)
(* Data.                                                                   *)
(***************************************************************************)
NewData(v) == [sum |-> v, count |-> 1, min |-> v, max |-> v]

\* Data::update; TRUE in panicked when self.sum += value overflows under checks.
DataUpdate(data, v, chk) ==
    [panicked |-> chk /\ AddOverflows(data.sum, v),
     data |-> [sum |-> WrappingAdd(data.sum, v),
               count |-> AddU32(data.count, 1),
               min |-> IF v < data.min THEN v ELSE data.min,
               max |-> IF v < data.min THEN data.max
                       ELSE IF v > data.max THEN v ELSE data.max]]

\* A union that takes the extremes of `other` whatever self holds.
DataUnion_OtherWins(data, other, chk) ==
    [panicked |-> chk /\ AddOverflows(data.sum, other.sum),
     data |-> [sum |-> WrappingAdd(data.sum, other.sum),
               count |-> AddU32(data.count, other.count),
               min |-> other.min,
               max |-> other.max]]

\* Data::union
DataUnion(data, other, chk) ==
    [panicked |-> chk /\ AddOverflows(data.sum, other.sum),
     data |-> [sum |-> WrappingAdd(data.sum, other.sum),
               count |-> AddU32(data.count, other.count),
               min |-> IF data.min < other.min THEN data.min ELSE other.min,
               max |-> IF data.max > other.max THEN data.max ELSE other.max]]

(***************************************************************************)
(* process_batch.                                                          *)
(***************************************************************************)
\* str::split('\n'): the pieces between the line breaks, empty ones included.
RECURSIVE Split(_, _)
Split(s, sep) ==
    LET hits == {i \in 1..Len(s) : s[i] = sep}
    IN  IF hits = {} THEN <<s>>
        ELSE LET first == CHOOSE i \in hits : \A j \in hits : i <= j
             IN  <<Take(s, first - 1)>> \o Split(Drop(s, first), sep)

EmptyMap == [k \in {} |-> NewData(0)]

MapPut(m, k, d) == [x \in DOMAIN m \cup {k} |-> IF x = k THEN d ELSE m[x]]

\* The for loop over the lines: split_line, parse_i32, then entry().and_modify()
\* .or_insert_with().  A line with no delimiter hits unreachable!().
RECURSIVE FoldLines(_, _, _, _)
FoldLines(lines, i, local_map, chk) ==
    IF i > Len(lines) THEN [panicked |-> FALSE, map |-> local_map]
    ELSE LET sl == split_line(lines[i])
             pv == parse_i32(sl.value_str, chk)
             up == DataUpdate(local_map[sl.station], pv.result, chk)
         IN  IF ~sl.found \/ pv.panicked THEN [panicked |-> TRUE, map |-> EmptyMap]
             ELSE IF sl.station \in DOMAIN local_map
             THEN IF up.panicked THEN [panicked |-> TRUE, map |-> EmptyMap]
                  ELSE FoldLines(lines, i + 1,
                                 MapPut(local_map, sl.station, up.data), chk)
             ELSE FoldLines(lines, i + 1,
                            MapPut(local_map, sl.station, NewData(pv.result)), chk)

\* The lines of a batch once batch.pop() has removed its last `popped` bytes.
LinesAfterPop(batch, popped) == Split(Take(batch, Len(batch) - popped), NEWLINE)

\* How many continuation bytes end s.
RECURSIVE TrailingContinuation(_)
TrailingContinuation(s) ==
    IF s = <<>> \/ ~IsContinuation(s[Len(s)]) THEN 0
    ELSE 1 + TrailingContinuation(Take(s, Len(s) - 1))

\* String::pop removes the last character: its continuation bytes and its first byte.
PopLength(batch) ==
    IF batch = <<>> THEN 0 ELSE 1 + TrailingContinuation(batch)

process_batch(batch, chk) == FoldLines(LinesAfterPop(batch, PopLength(batch)), 1, EmptyMap, chk)

\* Whether s is a sequence of whole encoded characters, read by their first bytes.
RECURSIVE ValidUtf8(_)
ValidUtf8(s) ==
    IF s = <<>> THEN TRUE
    ELSE LET b == s[1]
             n == IF b < 128 THEN 1
                  ELSE IF b >= 192 /\ b < 224 THEN 2
                  ELSE IF b >= 224 /\ b < 240 THEN 3
                  ELSE IF b >= 240 /\ b < 248 THEN 4
                  ELSE 0
         IN  /\ n > 0
             /\ Len(s) >= n
             /\ \A i \in 2..n : IsContinuation(s[i])
             /\ ValidUtf8(Drop(s, n))

\* What the spawned closure can produce for a batch.  String::from_utf8_unchecked
\* on bytes that are not valid text is undefined behaviour: the closure may then
\* panic, or go on with pop() having removed any 1 to 4 of the last bytes.
JobOutcomes(batch, chk) ==
    IF ValidUtf8(batch) THEN {process_batch(batch, chk)}
    ELSE {[panicked |-> TRUE, map |-> EmptyMap]}
         \cup {FoldLines(LinesAfterPop(batch, k), 1, EmptyMap, chk) :
                  k \in 1..(IF Len(batch) < 4 THEN Len(batch) ELSE 4)}

(***************************************************************************)
(* The inputs and the environment of a run.                                *)
(***************************************************************************)
\* num_cpus::get(): the size of the pool.
NumThreads == 2

\* The limit of take() is BATCH_SIZE * (AVERAGE_LINE_LENGTH + 1) in the source;
\* the files of the model are short, and so are its limits.
MinReadSize == 5
MaxReadSize == 20
ReadSizes == MinReadSize..MaxReadSize

\* "A;1.0\nB;-2.5\nA;3.0\n"
FileTwoStations ==
    <<65,59,49,46,48,10, 66,59,45,50,46,53,10, 65,59,51,46,48,10>>
\* "A;3.0\nA;1.0\nA;2.0\n"
FileOneStation ==
    <<65,59,51,46,48,10, 65,59,49,46,48,10, 65,59,50,46,48,10>>
\* "A;1.0\nA;5.0": the last record is not followed by a line break
FileNoFinalNewline == <<65,59,49,46,48,10, 65,59,53,46,48>>
\* "A;1.0": one record, no line break at all
FileNoNewline == <<65,59,49,46,48>>
\* "A;1.0\nXY\nA;2.0\n": the second line has no delimiter
FileNoDelimiter == <<65,59,49,46,48,10, 88,89,10, 65,59,50,46,48,10>>
\* "A;1.0\nXY": the line with no delimiter is the last one, with no line break
FileNoDelimiterLast == <<65,59,49,46,48,10, 88,89>>
\* "A;12\nA;1.23\n": a value with no decimal point, one with two fractional digits
FileBadValues == <<65,59,49,50,10, 65,59,49,46,50,51,10>>
\* "Abcd?;1.0\nB;2.0\n" with the two-byte character U+00E9 for the ?: a pull of
\* 5 bytes ends between its two bytes
FileMultiByte == <<65,98,99,100,195,169,59,49,46,48,10, 66,59,50,46,48,10>>
\* the empty file
FileEmpty == <<>>
\* "A;1.0\n?;2.0\n" with the lone continuation byte 0xA9 for the ?: not valid
\* text, the one input on which a remainder starts with a continuation byte
FileStrayContinuation == <<65,59,49,46,48,10, 169,59,50,46,48,10>>

Files == {FileTwoStations, FileOneStation, FileNoFinalNewline, FileNoNewline,
          FileNoDelimiter, FileNoDelimiterLast, FileBadValues, FileMultiByte,
          FileEmpty, FileStrayContinuation}

(***************************************************************************)
(* process_file: the reader loop inside pool.scope.                        *)
(***************************************************************************)
\* The bytes one pull adds to batch: take(read_size).read_to_end reads until the
\* limit or the end of the file.
FreshBytes(file, at, limit) ==
    SubSeq(file, at + 1, IF at + limit < Len(file) THEN at + limit ELSE Len(file))

\* The split at the last line break: with none, the batch is the whole buffer.
SplitAtLastNewline(buffer) ==
    LET last_newline == RPosition(buffer, NEWLINE)
    IN  IF last_newline = 0 THEN [batch |-> buffer, remainder |-> <<>>]
        ELSE [batch |-> Take(buffer, last_newline),
              remainder |-> Drop(buffer, last_newline)]

\* The fix-up for a remainder that starts with a continuation byte: the
\* continuation bytes that end the remainder move to the end of the batch.
FixContinuation(sp) ==
    IF sp.remainder # <<>> /\ IsContinuation(sp.remainder[1])
    THEN LET char_start == Len(sp.remainder) - TrailingContinuation(sp.remainder)
         IN  [batch |-> sp.batch \o Drop(sp.remainder, char_start),
              remainder |-> Take(sp.remainder, char_start)]
    ELSE sp

\* One iteration of the loop: assemble, read, stop at the end of the file or
\* split, fix up and spawn.
ReadChunk ==
    /\ pc = "loop"
    /\ LET fresh == FreshBytes(input, pos, read_size)
           sp == FixContinuation(SplitAtLastNewline(remainder \o fresh))
       IN  IF Len(fresh) = 0
           THEN /\ pc' = "join"
                /\ remainder' = <<>>
                /\ UNCHANGED <<pos, dispatched, pending>>
           ELSE /\ pos' = pos + Len(fresh)
                /\ remainder' = sp.remainder
                /\ dispatched' = Append(dispatched, sp.batch)
                /\ pending' = pending \cup {Len(dispatched) + 1}
                /\ pc' = pc
    /\ UNCHANGED <<batch_arg, batch_out, union_args, union_out,
                   input, read_size, overflow_checks, running, job_panicked,
                   results, master_map, output, value, parsed, acc, exact, steps>>

\* How many workers of the pool can run spawned jobs.  The closure of pool.scope
\* runs on one of the pool's threads: that thread takes jobs only once the loop
\* has ended and the scope waits for them.
FreeWorkers(at) == IF at = "loop" THEN NumThreads - 1 ELSE NumThreads

\* A pool that starts a thread for every job it is given.
CanStartJob_Unbounded(busy, at) == TRUE

CanStartJob(busy, at) == Cardinality(busy) < FreeWorkers(at)

\* A worker of the pool takes a spawned job.
StartJob(j) ==
    /\ pc \in {"loop", "join"}
    /\ j \in pending
    /\ CanStartJob(running, pc)
    /\ running' = running \cup {j}
    /\ pending' = pending \ {j}
    /\ UNCHANGED <<batch_arg, batch_out, union_args, union_out,
                   input, read_size, overflow_checks, pos, remainder, pc,
                   dispatched, job_panicked, results, master_map, output,
                   value, parsed, acc, exact, steps>>

\* The spawned closure: process_batch, then cloned_results.push(result).  A
\* panic is kept by the scope until it returns.
FinishJob(j) ==
    /\ j \in running
    /\ \E outcome \in JobOutcomes(dispatched[j], overflow_checks) :
          IF outcome.panicked
          THEN /\ job_panicked' = job_panicked \cup {j}
               /\ results' = results
          ELSE /\ results' = Append(results, outcome.map)
               /\ job_panicked' = job_panicked
    /\ running' = running \ {j}
    /\ UNCHANGED <<batch_arg, batch_out, union_args, union_out,
                   input, read_size, overflow_checks, pos, remainder, pc,
                   dispatched, pending, master_map, output,
                   value, parsed, acc, exact, steps>>

\* The owners of the queue: `results` itself and the clone moved into every
\* spawned closure, dropped when the closure ends, by a return or by a panic.
ArcStrongCount(queued, busy) == 1 + Cardinality(queued) + Cardinality(busy)

\* A scope that returns once every job has been taken by a worker.
AllJobsEnded_Started(queued, busy) == queued = {}

\* The wait that ends pool.scope: every spawned job has ended.
AllJobsEnded(queued, busy) == queued = {} /\ busy = {}

\* A scope that forgets the panics of its jobs.
ScopeOutcome_DropsPanics(panics, owners) ==
    IF owners = 1 THEN "merge" ELSE "panicked"

\* Where process_file goes on after the wait: the scope resumes the panic of a
\* job; with none, try_unwrap gives the queue to its one owner.
ScopeOutcome(panics, owners) ==
    IF panics # {} THEN "panicked"
    ELSE IF owners = 1 THEN "merge"
    ELSE "panicked"

\* pool.scope returns once every spawned job has ended, and panics if one did;
\* then Arc::try_unwrap(results).expect(..), which panics with another owner
\* alive.
ScopeReturn ==
    /\ pc = "join"
    /\ AllJobsEnded(pending, running)
    /\ pc' = ScopeOutcome(job_panicked, ArcStrongCount(pending, running))
    /\ UNCHANGED <<batch_arg, batch_out, union_args, union_out,
                   input, read_size, overflow_checks, pos, remainder,
                   dispatched, pending, running, job_panicked, results,
                   master_map, output, value, parsed, acc, exact, steps>>

(***************************************************************************)
(* process_file: the merge of the LocalTables.                             *)
(***************************************************************************)
\* The inner for loop over one local_map: entry().and_modify(union).or_insert().
MergeInto(master, local_map, chk) ==
    LET both == DOMAIN master \cap DOMAIN local_map
    IN  [panicked |-> \E k \in both : DataUnion(master[k], local_map[k], chk).panicked,
         map |-> [k \in DOMAIN master \cup DOMAIN local_map |->
                    IF k \in both THEN DataUnion(master[k], local_map[k], chk).data
                    ELSE IF k \in DOMAIN master THEN master[k]
                    ELSE local_map[k]]]

\* One iteration of `for local_map in results`.
MergeLocalMap ==
    /\ pc = "merge"
    /\ results # <<>>
    /\ LET merged == MergeInto(master_map, Head(results), overflow_checks)
       IN  IF merged.panicked
           THEN /\ pc' = "panicked"
                /\ UNCHANGED <<master_map, results>>
           ELSE /\ master_map' = merged.map
                /\ results' = Tail(results)
                /\ pc' = pc
    /\ UNCHANGED <<batch_arg, batch_out, union_args, union_out,
                   input, read_size, overflow_checks, pos, remainder,
                   dispatched, pending, running, job_panicked, output,
                   value, parsed, acc, exact, steps>>

(***************************************************************************)
(* process_file: the report.                                               *)
(***************************************************************************)
\* The order of String: byte by byte, a proper prefix first.
RECURSIVE LexLess(_, _)
LexLess(a, b) ==
    IF b = <<>> THEN FALSE
    ELSE IF a = <<>> THEN TRUE
    ELSE IF Head(a) # Head(b) THEN Head(a) < Head(b)
    ELSE LexLess(Tail(a), Tail(b))

\* master_map.keys().collect() then sort_unstable()
RECURSIVE SortStations(_)
SortStations(keys) ==
    IF keys = {} THEN <<>>
    ELSE LET least == CHOOSE k \in keys : \A o \in keys \ {k} : LexLess(k, o)
         IN  <<least>> \o SortStations(keys \ {least})

\* The decimal digits of n >= 0.
RECURSIVE Digits(_)
Digits(n) ==
    IF n < 10 THEN <<DIGIT_ZERO + n>>
    ELSE Digits(n \div 10) \o <<DIGIT_ZERO + (n % 10)>>

Magnitude(x) == IF x < 0 THEN -x ELSE x

\* "{}" of (x as f64 / 10.0): the shortest text that reads back as the same f64.
\* It has no fractional part when the quotient is a whole number.
FormatTenths(x) ==
    (IF x < 0 THEN <<MINUS_SIGN>> ELSE <<>>)
    \o Digits(Magnitude(x) \div 10)
    \o (IF Magnitude(x) % 10 = 0 THEN <<>>
        ELSE <<DECIMAL_POINT, DIGIT_ZERO + (Magnitude(x) % 10)>>)

\* sum / count rounded to a whole number of tenths.  When the quotient lies
\* exactly half way, the digit depends on the error of the f64 division and on
\* the tie rule of the formatter: round_up stands for either.
MeanTenths(sum, count, round_up) ==
    LET q == Magnitude(sum) \div count
        r == Magnitude(sum) % count
    IN  IF r > count - r \/ (r = count - r /\ round_up) THEN q + 1 ELSE q

\* "{:.1}" of (sum as f64 / count as f64 / 10.0): always one fractional digit,
\* and the sign of the quotient even when it rounds to zero.
FormatMean(sum, count, round_up) ==
    LET m == MeanTenths(sum, count, round_up)
    IN  (IF sum < 0 THEN <<MINUS_SIGN>> ELSE <<>>)
        \o Digits(m \div 10) \o <<DECIMAL_POINT, DIGIT_ZERO + (m % 10)>>

\* impl Display for Data
DisplayData(data, round_up) ==
    FormatTenths(data.min) \o <<SLASH>>
    \o FormatMean(data.sum, data.count, round_up) \o <<SLASH>>
    \o FormatTenths(data.max)

\* The entries of the report: "{}={}, " for all stations but the last, "{}={}"
\* for the last.
RECURSIVE ReportEntries(_, _, _, _)
ReportEntries(stations, i, map, ups) ==
    IF i > Len(stations) THEN <<>>
    ELSE stations[i] \o <<EQUALS_SIGN>> \o DisplayData(map[stations[i]], ups[stations[i]])
         \o (IF i < Len(stations) THEN <<COMMA, SPACE>> ELSE <<>>)
         \o ReportEntries(stations, i + 1, map, ups)

\* The results are drained: the stations are sorted and "{" is written.
WriteOpen ==
    /\ pc = "merge"
    /\ results = <<>>
    /\ output' = output \o <<BRACE_OPEN>>
    /\ pc' = "write"
    /\ UNCHANGED <<batch_arg, batch_out, union_args, union_out,
                   input, read_size, overflow_checks, pos, remainder,
                   dispatched, pending, running, job_panicked, results,
                   master_map, value, parsed, acc, exact, steps>>

\* let num_stations = stations.len()
NumStations == Cardinality(DOMAIN master_map)

\* a - b on usize leaves the range of the type.
UsizeSubUnderflows(a, b) == a < b

\* take(num_stations - 1), the entries, "}" and the line break.  With no station
\* the usize subtraction overflows: a panic under checks, usize::MAX otherwise.
WriteEntries ==
    /\ pc = "write"
    /\ IF UsizeSubUnderflows(NumStations, 1) /\ overflow_checks
       THEN /\ pc' = "panicked"
            /\ output' = output
       ELSE /\ \E ups \in [DOMAIN master_map -> BOOLEAN] :
                 output' = output
                           \o ReportEntries(SortStations(DOMAIN master_map), 1,
                                            master_map, ups)
                           \o <<BRACE_CLOSE, NEWLINE>>
            /\ pc' = "done"
    /\ UNCHANGED <<batch_arg, batch_out, union_args, union_out,
                   input, read_size, overflow_checks, pos, remainder,
                   dispatched, pending, running, job_panicked, results,
                   master_map, value, parsed, acc, exact, steps>>

(***************************************************************************)
(* The run of process_file.                                                *)
(***************************************************************************)
NoValue == <<>>
NoParse == [panicked |-> FALSE, result |-> 0]
NoData == NewData(0)
NoExact == [fits |-> TRUE, sum |-> 0]
NoBatch == <<>>
NoLocalMap == [panicked |-> FALSE, map |-> EmptyMap]
NoUnionArgs == <<>>
NoUnionOut == <<>>

\* The variables of the calls checked alone, which a run of process_file leaves
\* as they are.
AloneUnused ==
    /\ batch_arg = NoBatch
    /\ batch_out = NoLocalMap
    /\ union_args = NoUnionArgs
    /\ union_out = NoUnionOut

Init ==
    /\ input \in Files
    /\ read_size \in ReadSizes
    /\ overflow_checks \in BOOLEAN
    /\ pos = 0
    /\ remainder = <<>>
    /\ pc = "loop"
    /\ dispatched = <<>>
    /\ pending = {}
    /\ running = {}
    /\ job_panicked = {}
    /\ results = <<>>
    /\ master_map = EmptyMap
    /\ output = <<>>
    /\ value = NoValue
    /\ parsed = NoParse
    /\ acc = NoData
    /\ exact = NoExact
    /\ steps = 0
    /\ AloneUnused

Next ==
    \/ ReadChunk
    \/ \E j \in pending : StartJob(j)
    \/ \E j \in running : FinishJob(j)
    \/ ScopeReturn
    \/ MergeLocalMap
    \/ WriteOpen
    \/ WriteEntries

Spec == Init /\ [][Next]_vars

(***************************************************************************)
(* What the file holds, read without the code: its records, their keys and *)
(* the values their texts denote.                                          *)
(***************************************************************************)
IsDigit(c) == c >= DIGIT_ZERO /\ c <= DIGIT_ZERO + 9

\* The lines of a file: a line break ends a line, and the last line may have none.
FileLines(file) ==
    LET pieces == Split(file, NEWLINE)
    IN  IF pieces[Len(pieces)] = <<>> THEN Take(pieces, Len(pieces) - 1) ELSE pieces

\* An optional minus, one or more digits, a decimal point, one digit.
ShapeOK(v) ==
    LET body == IF v # <<>> /\ v[1] = MINUS_SIGN THEN Tail(v) ELSE v
    IN  /\ Len(body) >= 3
        /\ body[Len(body) - 1] = DECIMAL_POINT
        /\ IsDigit(body[Len(body)])
        /\ \A i \in 1..(Len(body) - 2) : IsDigit(body[i])

\* The digits of a text, most significant first.
DigitsOf(v) == SelectSeq(v, IsDigit)

\* Ten times the decimal value of a well-shaped text, read from its first digit on.
RECURSIVE DigitsValue(_)
DigitsValue(ds) ==
    IF ds = <<>> THEN 0
    ELSE DigitsValue(Take(ds, Len(ds) - 1)) * 10 + (ds[Len(ds)] - DIGIT_ZERO)

ScaledValue(v) ==
    IF v[1] = MINUS_SIGN THEN -DigitsValue(DigitsOf(v)) ELSE DigitsValue(DigitsOf(v))

HasDelimiter(line) == \E i \in 1..Len(line) : line[i] = LINE_DELIMITER

RecordOK(line) == HasDelimiter(line) /\ ShapeOK(split_line(line).value_str)

AllRecordsOK(file) ==
    /\ ValidUtf8(file)
    /\ \A i \in 1..Len(FileLines(file)) : RecordOK(FileLines(file)[i])

StationsOf(file) == {split_line(FileLines(file)[i]).station : i \in 1..Len(FileLines(file))}

ValuesOf(file, station) ==
    {ScaledValue(split_line(FileLines(file)[i]).value_str) :
        i \in {n \in 1..Len(FileLines(file)) : split_line(FileLines(file)[n]).station = station}}

Lowest(S) == CHOOSE x \in S : \A y \in S : x <= y
Highest(S) == CHOOSE x \in S : \A y \in S : x >= y

\* The merge loop has folded every LocalTable into master_map.
Merged == pc \in {"write", "done"}

\* What was dispatched before batch i.
Before(i) == Concat(SubSeq(dispatched, 1, i - 1))

StartsAtRecord(i) == Before(i) = <<>> \/ Before(i)[Len(Before(i))] = NEWLINE

EndsWithNewline(i) == dispatched[i] # <<>> /\ dispatched[i][Len(dispatched[i])] = NEWLINE

\* Batch i is made of whole records: it starts where a record starts and ends
\* with a line break, or where the file ends.
WholeRecords(i) ==
    /\ dispatched[i] # <<>>
    /\ StartsAtRecord(i)
    /\ EndsWithNewline(i) \/ Len(Before(i)) + Len(dispatched[i]) = Len(input)

OnlyWholeRecordBatches == \A i \in 1..Len(dispatched) : WholeRecords(i)

\* The table of the whole file aggregated as one batch; no record, an empty table.
SingleBatch ==
    IF input = <<>> THEN [panicked |-> FALSE, map |-> EmptyMap]
    ELSE process_batch(input, overflow_checks)

(***************************************************************************)
(* Claims on the run of process_file.                                      *)
(***************************************************************************)
\* C1: batch-boundary independence.  Whenever the reader has emitted only
\* batches made of whole records, the merged MasterTable equals the table
\* obtained by aggregating the whole file as one single batch.
C1_BatchBoundaryIndependence ==
    (Merged /\ OnlyWholeRecordBatches) =>
        (~SingleBatch.panicked /\ master_map = SingleBatch.map)

\* C2: once the reader loop has ended, the dispatched batches, concatenated in
\* dispatch order, are the bytes of the file: every record, a last one with no
\* line break included, lies in exactly one batch.
C2_BatchesCoverInput ==
    (pc # "loop" /\ AllRecordsOK(input)) => Concat(dispatched) = input

\* C3: min/max fidelity.  After the merge, every station of a file of
\* well-formed records, split into batches of whole records, has as min and max
\* the least and the greatest scaled value of its records in the whole file.
C3_MinMaxFidelity ==
    (Merged /\ AllRecordsOK(input) /\ OnlyWholeRecordBatches) =>
        \A k \in StationsOf(input) :
            /\ k \in DOMAIN master_map
            /\ master_map[k].min = Lowest(ValuesOf(input, k))
            /\ master_map[k].max = Highest(ValuesOf(input, k))

\* A scaled integer as decimal text with exactly one fractional digit.
OneFractionalDigit(x) ==
    (IF x < 0 THEN <<MINUS_SIGN>> ELSE <<>>)
    \o Digits(Magnitude(x) \div 10)
    \o <<DECIMAL_POINT, DIGIT_ZERO + (Magnitude(x) % 10)>>

RECURSIVE ExpectedEntries(_, _, _, _)
ExpectedEntries(stations, i, map, ups) ==
    IF i > Len(stations) THEN <<>>
    ELSE stations[i] \o <<EQUALS_SIGN>>
         \o OneFractionalDigit(map[stations[i]].min) \o <<SLASH>>
         \o FormatMean(map[stations[i]].sum, map[stations[i]].count, ups[stations[i]])
         \o <<SLASH>> \o OneFractionalDigit(map[stations[i]].max)
         \o (IF i < Len(stations) THEN <<COMMA, SPACE>> ELSE <<>>)
         \o ExpectedEntries(stations, i + 1, map, ups)

\* "{A=1.0/2.0/3.0, B=-2.5/-2.5/-2.5}" and the line break of writeln!
ExpectedTwoStations ==
    <<123, 65,61, 49,46,48, 47, 50,46,48, 47, 51,46,48, 44,32,
      66,61, 45,50,46,53, 47, 45,50,46,53, 47, 45,50,46,53, 125, 10>>

\* C5: the report is the map literal with the keys in sorted order, min and max
\* rendered with exactly one fractional digit; the records A;1.0, B;-2.5, A;3.0
\* give {A=1.0/2.0/3.0, B=-2.5/-2.5/-2.5}.
C5_ReportRendering ==
    (pc = "done" /\ AllRecordsOK(input) /\ Concat(dispatched) = input) =>
        /\ \E ups \in [DOMAIN master_map -> BOOLEAN] :
              output = <<BRACE_OPEN>>
                       \o ExpectedEntries(SortStations(DOMAIN master_map), 1,
                                          master_map, ups)
                       \o <<BRACE_CLOSE, NEWLINE>>
        /\ (input = FileTwoStations /\ OnlyWholeRecordBatches)
              => output = ExpectedTwoStations

\* C6: when a line of the file has no delimiter, process_file never writes any
\* part of the report and does not complete.
C6_NoDelimiterNoOutput ==
    (\E i \in 1..Len(FileLines(input)) : ~HasDelimiter(FileLines(input)[i])) =>
        (output = <<>> /\ pc # "done")

InFlight == Cardinality(pending) + Cardinality(running)

C10_BatchesNewlineTerminated ==
    \A i \in 1..Len(dispatched) : StartsAtRecord(i) /\ EndsWithNewline(i)

(***************************************************************************)
(* parse_i32 alone: a call on one value text.                              *)
(***************************************************************************)
\* The texts of at most MaxTextLen characters over a minus, a point, three
\* digits and a letter: every shape of a short value field, well formed or not.
MaxTextLen == 5
TextAlphabet == {MINUS_SIGN, DECIMAL_POINT, DIGIT_ZERO, DIGIT_ZERO + 1,
                 DIGIT_ZERO + 9, 120}
ShortTexts == UNION {[1..n -> TextAlphabet] : n \in 0..MaxTextLen}

\* Well-shaped texts of up to MaxIntegerDigits equal digits before the point.
MaxIntegerDigits == 11
Repeat(d, n) == [i \in 1..n |-> d]
LongTexts ==
    {sign \o Repeat(DIGIT_ZERO + d, n) \o <<DECIMAL_POINT, DIGIT_ZERO + f>> :
        sign \in {<<>>, <<MINUS_SIGN>>}, d \in {0, 1, 2, 9},
        n \in 1..MaxIntegerDigits, f \in {0, 7, 8}}

\* "214748364.7", "214748364.8" and their negatives: around the ends of i32
EdgeTexts ==
    {sign \o <<50,49,52,55,52,56,51,54,52, DECIMAL_POINT, DIGIT_ZERO + f>> :
        sign \in {<<>>, <<MINUS_SIGN>>}, f \in {7, 8, 9}}

ValueTexts == ShortTexts \cup LongTexts \cup EdgeTexts

InitParse ==
    /\ value \in ValueTexts
    /\ overflow_checks \in BOOLEAN
    /\ parsed = NoParse
    /\ pc = "parse_call"
    /\ input = <<>>
    /\ read_size = MinReadSize
    /\ pos = 0
    /\ remainder = <<>>
    /\ dispatched = <<>>
    /\ pending = {}
    /\ running = {}
    /\ job_panicked = {}
    /\ results = <<>>
    /\ master_map = EmptyMap
    /\ output = <<>>
    /\ acc = NoData
    /\ exact = NoExact
    /\ steps = 0
    /\ AloneUnused

\* let value = parse_i32(value_str)
ParseCall ==
    /\ pc = "parse_call"
    /\ parsed' = parse_i32(value, overflow_checks)
    /\ pc' = "parse_ret"
    /\ UNCHANGED <<batch_arg, batch_out, union_args, union_out,
                   input, read_size, overflow_checks, pos, remainder,
                   dispatched, pending, running, job_panicked, results,
                   master_map, output, value, acc, exact, steps>>

NextParse == ParseCall

SpecParse == InitParse /\ [][NextParse]_vars

\* A text's digits without the zeros that lead them (one digit is always kept).
RECURSIVE StripZeros(_)
StripZeros(ds) ==
    IF Len(ds) > 1 /\ ds[1] = DIGIT_ZERO THEN StripZeros(Tail(ds)) ELSE ds

\* n is ten times the decimal value of the well-shaped text v: it has the text's
\* digits, and its sign unless it is zero.  Read digit by digit, so that a text
\* longer than any machine integer is compared too.
IsScaledValueOf(n, v) ==
    /\ n # MinI32
    /\ Digits(Magnitude(n)) = StripZeros(DigitsOf(v))
    /\ (n < 0) <=> (v[1] = MINUS_SIGN /\ StripZeros(DigitsOf(v)) # <<DIGIT_ZERO>>)

\* The most digits a text can have for 10 ^ digits to be an i32.
MaxExactDigits == Len(Digits(MaxI32)) - 1

\* C4 as stated: for every well-shaped text, whatever its length, parse_i32
\* returns ten times its decimal value.
C4_DecoderCorrect ==
    (pc = "parse_ret" /\ ShapeOK(value)) =>
        (~parsed.panicked /\ IsScaledValueOf(parsed.result, value))

\* C4 amended: for every well-shaped text of at most nine digits in all,
\* parse_i32 returns ten times its decimal value.
C4_DecoderCorrectNineDigits ==
    (pc = "parse_ret" /\ ShapeOK(value) /\ Len(DigitsOf(value)) <= MaxExactDigits) =>
        (~parsed.panicked /\ IsScaledValueOf(parsed.result, value))

\* parse_i32 has returned the value of a negative text of nine digits.
C4_Witness ==
    /\ pc = "parse_ret"
    /\ ShapeOK(value)
    /\ value[1] = MINUS_SIGN
    /\ Len(DigitsOf(value)) = MaxExactDigits
    /\ ~parsed.panicked
    /\ parsed.result < 0
    /\ Len(Digits(Magnitude(parsed.result))) = MaxExactDigits

\* C7: for every value text that is not well shaped, parse_i32 fails instead of
\* returning a number.
C7_MalformedValueIsFatal ==
    (pc = "parse_ret" /\ ~ShapeOK(value)) => parsed.panicked

(***************************************************************************)
(* Data alone: an aggregate of one station under update and union.         *)
(***************************************************************************)
\* The scaled values of -99.9 and 99.9, the ends of the range of a value.
MaxScaled == 999
Values == {-MaxScaled, -1, 0, 1, MaxScaled}

\* The aggregate of a run of n records of the same value v, whose sum n * v is
\* an i32: what n - 1 calls of update leave in a Data created from v.
LongRun == 2149633
RunLengths == {1, 2, LongRun \div 2, LongRun}
RunFits(n, v) == v = 0 \/ n <= MaxI32 \div Magnitude(v)
RunData(n, v) == [sum |-> n * v, count |-> n, min |-> v, max |-> v]
Runs == {RunData(p[1], p[2]) : p \in {q \in RunLengths \X Values : RunFits(q[1], q[2])}}

\* How many calls of update and union a fold of the model makes.
MaxSteps == 3

\* The mathematical sum next to an i32: fits is FALSE once it has left the range.
ExactAdd(e, v) ==
    IF e.fits /\ ~AddOverflows(e.sum, v) THEN [fits |-> TRUE, sum |-> e.sum + v]
    ELSE [fits |-> FALSE, sum |-> 0]

InitData ==
    /\ acc \in Runs
    /\ exact = [fits |-> TRUE, sum |-> acc.sum]
    /\ steps = 0
    /\ overflow_checks \in BOOLEAN
    /\ pc = "fold"
    /\ input = <<>>
    /\ read_size = MinReadSize
    /\ pos = 0
    /\ remainder = <<>>
    /\ dispatched = <<>>
    /\ pending = {}
    /\ running = {}
    /\ job_panicked = {}
    /\ results = <<>>
    /\ master_map = EmptyMap
    /\ output = <<>>
    /\ value = NoValue
    /\ parsed = NoParse
    /\ AloneUnused

\* and_modify(|data| data.update(value)) for one more record of the station
UpdateStep(v) ==
    /\ pc = "fold"
    /\ steps < MaxSteps
    /\ LET up == DataUpdate(acc, v, overflow_checks)
       IN  IF up.panicked
           THEN /\ pc' = "panicked"
                /\ UNCHANGED <<acc, exact>>
           ELSE /\ acc' = up.data
                /\ exact' = ExactAdd(exact, v)
                /\ pc' = pc
    /\ steps' = steps + 1
    /\ UNCHANGED <<batch_arg, batch_out, union_args, union_out,
                   input, read_size, overflow_checks, pos, remainder,
                   dispatched, pending, running, job_panicked, results,
                   master_map, output, value, parsed>>

\* and_modify(|master_data| master_data.union(&data)) with another LocalTable's
\* aggregate of the station
UnionStep(other) ==
    /\ pc = "fold"
    /\ steps < MaxSteps
    /\ LET un == DataUnion(acc, other, overflow_checks)
       IN  IF un.panicked
           THEN /\ pc' = "panicked"
                /\ UNCHANGED <<acc, exact>>
           ELSE /\ acc' = un.data
                /\ exact' = ExactAdd(exact, other.sum)
                /\ pc' = pc
    /\ steps' = steps + 1
    /\ UNCHANGED <<batch_arg, batch_out, union_args, union_out,
                   input, read_size, overflow_checks, pos, remainder,
                   dispatched, pending, running, job_panicked, results,
                   master_map, output, value, parsed>>

NextData ==
    \/ \E v \in Values : UpdateStep(v)
    \/ \E other \in Runs : UnionStep(other)

SpecData == InitData /\ [][NextData]_vars

\* C9: the sum an aggregate holds is the exact mathematical sum of the scaled
\* values folded into it: the i32 never wraps and the fold never stops on an
\* overflow, for values between -99.9 and 99.9.
C9_ExactAccumulation ==
    /\ pc # "panicked"
    /\ exact.fits
    /\ acc.sum = exact.sum

(***************************************************************************)
(* Encoding validity of the batches.                                       *)
(***************************************************************************)
\* The bytes of a batch after its last line break; the whole batch if it has
\* none.
AfterLastNewline(b) == Drop(b, RPosition(b, NEWLINE))

\* The fix-up has put bytes of the remainder behind the line break that ends
\* the batch.
FixUpFedBatch(b) ==
    /\ RPosition(b, NEWLINE) # 0
    /\ AfterLastNewline(b) # <<>>
    /\ \A k \in 1..Len(AfterLastNewline(b)) : IsContinuation(AfterLastNewline(b)[k])

\* C11: wherever a pull ends in an input of valid text, every dispatched batch
\* is valid text and the remainder kept for the next pull starts at the start
\* of a character; and the fix-up never adds bytes to the batch side, so no
\* batch carries continuation bytes behind its last line break.
C11_BatchesValidText ==
    /\ ValidUtf8(input) =>
          /\ \A i \in 1..Len(dispatched) : ValidUtf8(dispatched[i])
          /\ remainder # <<>> => ~IsContinuation(remainder[1])
    /\ \A i \in 1..Len(dispatched) : ~FixUpFedBatch(dispatched[i])

\* The same for inputs of valid text alone.
C11_ValidInputOnly ==
    ValidUtf8(input) =>
        /\ \A i \in 1..Len(dispatched) : ValidUtf8(dispatched[i])
        /\ remainder # <<>> => ~IsContinuation(remainder[1])

\* The fix-up alone.
C11_FixUpOnly == \A i \in 1..Len(dispatched) : ~FixUpFedBatch(dispatched[i])

\* Valid input, and every batch that has no line break excluded.
C11_ValidWhenNewlineTerminated ==
    (ValidUtf8(input) /\ \A i \in 1..Len(dispatched) : EndsWithNewline(i)) =>
        \A i \in 1..Len(dispatched) : ValidUtf8(dispatched[i])
(***************************************************************************)
(* process_batch alone: one call on a batch of whole records, with and     *)
(* without the line break after the last record.                           *)
(***************************************************************************)
MaxBatchRecords == 3

\* "A;1.0", "B;-2.5", "A;12.3"
BatchRecords == {<<65,59,49,46,48>>, <<66,59,45,50,46,53>>, <<65,59,49,50,46,51>>}

\* The records, each followed by a line break.
Terminated(records) ==
    Concat([i \in 1..Len(records) |-> records[i] \o <<NEWLINE>>])

\* The batches of one to MaxBatchRecords records: the last record followed by
\* a line break, as after a split at the last line break, or not, as for a
\* buffer that holds the end of a file with no final line break.
Batches ==
    LET lists == UNION {[1..n -> BatchRecords] : n \in 1..MaxBatchRecords}
    IN  {Terminated(l) : l \in lists}
        \cup {Take(Terminated(l), Len(Terminated(l)) - 1) : l \in lists}

InitBatch ==
    /\ batch_arg \in Batches
    /\ overflow_checks \in BOOLEAN
    /\ pc = "batch_call"
    /\ batch_out = NoLocalMap
    /\ input = <<>>
    /\ read_size = MinReadSize
    /\ pos = 0
    /\ remainder = <<>>
    /\ dispatched = <<>>
    /\ pending = {}
    /\ running = {}
    /\ job_panicked = {}
    /\ results = <<>>
    /\ master_map = EmptyMap
    /\ output = <<>>
    /\ value = NoValue
    /\ parsed = NoParse
    /\ acc = NoData
    /\ exact = NoExact
    /\ steps = 0
    /\ union_args = NoUnionArgs
    /\ union_out = NoUnionOut

\* let result = process_batch(batch_str)
BatchCall ==
    /\ pc = "batch_call"
    /\ batch_out' = process_batch(batch_arg, overflow_checks)
    /\ pc' = "batch_ret"
    /\ UNCHANGED <<batch_arg, union_args, union_out,
                   input, read_size, overflow_checks, pos, remainder,
                   dispatched, pending, running, job_panicked, results,
                   master_map, output, value, parsed, acc, exact, steps>>

NextBatch == BatchCall

SpecBatch == InitBatch /\ [][NextBatch]_vars

BatchEndsWithNewline == batch_arg[Len(batch_arg)] = NEWLINE

\* C12: for a batch whose last record is not followed by a line break,
\* process_batch returns the LocalTable it returns for the same batch with a
\* line break appended: it takes off the end only a line break.
C12_PopOnlyLineBreak ==
    (pc = "batch_ret" /\ ~BatchEndsWithNewline) =>
        batch_out = process_batch(batch_arg \o <<NEWLINE>>, overflow_checks)

\* A batch that ends with a line break gives the table of its records.
C12_TerminatedBatch ==
    (pc = "batch_ret" /\ BatchEndsWithNewline) =>
        /\ ~batch_out.panicked
        /\ DOMAIN batch_out.map = StationsOf(batch_arg)
        /\ \A st \in DOMAIN batch_out.map :
              /\ batch_out.map[st].min = Lowest(ValuesOf(batch_arg, st))
              /\ batch_out.map[st].max = Highest(ValuesOf(batch_arg, st))
(***************************************************************************)
(* The join before the drain of the queue.                                 *)
(***************************************************************************)
\* How many times each element occurs in a sequence.
Occurrences(seq) ==
    [x \in {seq[i] : i \in 1..Len(seq)} |-> Cardinality({i \in 1..Len(seq) : seq[i] = x})]

AllBatchesValidText == \A i \in 1..Len(dispatched) : ValidUtf8(dispatched[i])

\* The LocalTables of the dispatched batches, in the order of dispatch.
TablesInDispatchOrder ==
    [i \in 1..Len(dispatched) |-> process_batch(dispatched[i], overflow_checks).map]

\* C13: the step that leaves the wait of the scope finds every dispatched job
\* ended and the queue owned by `results` alone; unless a job panicked, it is
\* the step to the drain (Arc::try_unwrap does not fail), and the queue then
\* holds one LocalTable for each dispatched batch, none lost and none twice.
\* The drain runs with no job queued or running.
C13_JoinBeforeDrain ==
    /\ [][(pc = "join" /\ pc' # "join") =>
            /\ pending = {} /\ running = {}
            /\ ArcStrongCount(pending, running) = 1
            /\ Len(results) + Cardinality(job_panicked) = Len(dispatched)
            /\ job_panicked = {} =>
                  /\ pc' = "merge"
                  /\ Len(results') = Len(dispatched')
                  /\ AllBatchesValidText =>
                        Occurrences(results') = Occurrences(TablesInDispatchOrder)]_vars
    /\ [](pc \in {"merge", "write", "done"} => pending = {} /\ running = {})

\* The drain is about to start on the tables of two batches or more.
C13_Witness ==
    /\ pc = "merge"
    /\ master_map = EmptyMap
    /\ Len(dispatched) >= 2
    /\ Len(results) = Len(dispatched)
(***************************************************************************)
(* The merge and the order in which the workers push.                      *)
(***************************************************************************)
\* The merge loop run on the tables in the order given.
RECURSIVE MergeInOrder(_, _)
MergeInOrder(master, tables) ==
    IF tables = <<>> THEN master
    ELSE MergeInOrder(MergeInto(master, Head(tables), overflow_checks).map, Tail(tables))

UnionThen(x, y, z, chk) ==
    LET first == DataUnion(x, y, chk)
        second == DataUnion(first.data, z, chk)
    IN  [panicked |-> first.panicked \/ second.panicked, data |-> second.data]

\* y.union(&z) then x.union(&y)
UnionOfUnion(x, y, z, chk) ==
    LET inner == DataUnion(y, z, chk)
        outer == DataUnion(x, inner.data, chk)
    IN  [panicked |-> inner.panicked \/ outer.panicked, data |-> outer.data]

InitUnion ==
    /\ union_args \in Runs \X Runs \X Runs
    /\ union_out = NoUnionOut
    /\ overflow_checks \in BOOLEAN
    /\ pc = "union_call"
    /\ batch_arg = NoBatch
    /\ batch_out = NoLocalMap
    /\ input = <<>>
    /\ read_size = MinReadSize
    /\ pos = 0
    /\ remainder = <<>>
    /\ dispatched = <<>>
    /\ pending = {}
    /\ running = {}
    /\ job_panicked = {}
    /\ results = <<>>
    /\ master_map = EmptyMap
    /\ output = <<>>
    /\ value = NoValue
    /\ parsed = NoParse
    /\ acc = NoData
    /\ exact = NoExact
    /\ steps = 0

\* union(union(A,B),C), union(A,union(B,C)) and union(union(A,C),B)
UnionCall ==
    /\ pc = "union_call"
    /\ LET A == union_args[1]
           B == union_args[2]
           C == union_args[3]
       IN  union_out' = <<UnionThen(A, B, C, overflow_checks),
                          UnionOfUnion(A, B, C, overflow_checks),
                          UnionThen(A, C, B, overflow_checks)>>
    /\ pc' = "union_ret"
    /\ UNCHANGED <<batch_arg, batch_out, union_args,
                   input, read_size, overflow_checks, pos, remainder,
                   dispatched, pending, running, job_panicked, results,
                   master_map, output, value, parsed, acc, exact, steps>>

NextUnion == UnionCall

SpecUnion == InitUnion /\ [][NextUnion]_vars

\* The three groupings returned the same sum, count, min and max.
SameData ==
    /\ union_out[1].data = union_out[2].data
    /\ union_out[1].data = union_out[3].data

\* C15: for any three aggregates A, B and C of one station, the three
\* groupings of union come out alike: either all three return, with equal sum,
\* count, min and max, or none does.
C15_UnionAssociativeCommutative ==
    pc = "union_ret" =>
        /\ \A g, h \in 1..3 : union_out[g].panicked = union_out[h].panicked
        /\ (\A g \in 1..3 : ~union_out[g].panicked) => SameData

\* Whenever the three groupings return, they return the same; with wrapping
\* arithmetic they always return.
C15_SameWhenAllReturn ==
    /\ (pc = "union_ret" /\ \A g \in 1..3 : ~union_out[g].panicked) => SameData
    /\ (pc = "union_ret" /\ ~overflow_checks) => \A g \in 1..3 : ~union_out[g].panicked
(***************************************************************************)
(* The invariant of an aggregate.                                          *)
(***************************************************************************)
\* m * n for a count n >= 1 is within the i32 range but for its least number.
ProductFits(m, n) == m = 0 \/ n <= MaxI32 \div Magnitude(m)

\* m * n is the least i32.
ProductIsMinI32(m, n) ==
    /\ m < 0
    /\ MaxI32 % Magnitude(m) = Magnitude(m) - 1
    /\ n = (MaxI32 \div Magnitude(m)) + 1

\* min * count <= sum, the product taken in the integers.
SumAboveMin(d) ==
    IF ProductFits(d.min, d.count) THEN d.min * d.count <= d.sum
    ELSE d.min < 0

\* sum <= max * count, the product taken in the integers.
SumBelowMax(d) ==
    IF ProductFits(d.max, d.count) THEN d.sum <= d.max * d.count
    ELSE d.max > 0 \/ (ProductIsMinI32(d.max, d.count) /\ d.sum = MinI32)

\* C16: every Data made from one value by calls of update and union has
\* count >= 1, min <= max and min * count <= sum <= max * count.
C16_AggregateInvariant ==
    /\ acc.count >= 1
    /\ acc.min <= acc.max
    /\ SumAboveMin(acc)
    /\ SumBelowMax(acc)

\* The count and the extremes alone.
C16_CountAndExtremes == acc.count >= 1 /\ acc.min <= acc.max

\* The same while the mathematical sum is an i32.
C16_WhileSumFits == exact.fits => C16_AggregateInvariant
(***************************************************************************)
(* What follows the panic of a job.                                        *)
(***************************************************************************)
\* C17: once a job has panicked on a line with no delimiter or on a value it
\* cannot decode, the run stops at once: no step after it reads from the file,
\* dispatches a batch, starts a job or ends one.
C17_FailFast ==
    [][(job_panicked # {} /\ AllBatchesValidText) =>
          /\ pos' = pos
          /\ dispatched' = dispatched
          /\ running' = running
          /\ results' = results
          /\ job_panicked' = job_panicked]_vars

\* C17 as the code has it: the panic of a job is kept by the scope.  The run
\* is then in the loop, in the wait or failed: it never drains the queue, folds
\* no table into master_map and writes nothing.
C17_PanicKeptUntilScopeEnds ==
    job_panicked # {} =>
        /\ pc \in {"loop", "join", "panicked"}
        /\ master_map = EmptyMap
        /\ output = <<>>

\* A job panicked, batches were dispatched and processed to their tables after
\* it, and process_file failed when the scope returned.
C17_Witness ==
    /\ pc = "panicked"
    /\ 1 \in job_panicked
    /\ AllBatchesValidText
    /\ Len(dispatched) >= 2
    /\ results # <<>>
(***************************************************************************)
(* The empty input.                                                        *)
(***************************************************************************)
\* "{}" and a line break
EmptyReport == <<BRACE_OPEN, BRACE_CLOSE, NEWLINE>>

\* C19: on an input of zero bytes process_file does not fail, what it has
\* written when it returns is "{}" and a line break, and num_stations - 1 does
\* not underflow when the formatter computes it.
C19_EmptyInput ==
    input = <<>> =>
        /\ pc # "panicked"
        /\ pc = "done" => output = EmptyReport
        /\ pc = "write" => ~UsizeSubUnderflows(NumStations, 1)

\* Without overflow checks the run on the empty input ends with the empty
\* report.
C19_EmptyReportWhenWrapping ==
    (input = <<>> /\ ~overflow_checks) =>
        /\ pc # "panicked"
        /\ pc = "done" => output = EmptyReport

\* With overflow checks the run on the empty input never returns.
C19_NoReportWhenChecked == (input = <<>> /\ overflow_checks) => pc # "done"
(***************************************************************************)
(* Termination of process_file.                                            *)
(***************************************************************************)
\* The end of the job j as the pool sees it: whatever the closure did, a
\* worker is free again.  Every step of FinishJob(j) is such a step, and no
\* other step of the run is.
JobEnds(j) == j \in running /\ running' = running \ {j}

\* The thread of the reader loop, of the wait and of the merge keeps running,
\* a free worker of the pool takes a queued job, and a job that runs ends.
FairSpec ==
    /\ Spec
    /\ WF_vars(ReadChunk)
    /\ WF_vars(\E j \in pending : StartJob(j))
    /\ WF_running(\E j \in running : JobEnds(j))
    /\ WF_vars(ScopeReturn)
    /\ WF_vars(MergeLocalMap)
    /\ WF_vars(WriteOpen)
    /\ WF_vars(WriteEntries)

\* Valid text made of records "station;value", each followed by a line break.
WellFormedInput ==
    /\ ValidUtf8(input)
    /\ AllRecordsOK(input)
    /\ input = <<>> \/ input[Len(input)] = NEWLINE

\* The length of the longest line of the input, its line break not counted.
LongestLine ==
    LET lens == {Len(FileLines(input)[i]) : i \in 1..Len(FileLines(input))}
    IN  IF lens = {} THEN 0 ELSE Highest(lens)

\* C18: for every well-formed input and every read size, with the reader and
\* the workers scheduled fairly, the loop ends, every dispatched batch is
\* processed, the scope returns and the report is written.
C18_Termination ==
    WellFormedInput =>
        <>(/\ pc = "done"
           /\ pos = Len(input)
           /\ pending = {} /\ running = {}
           /\ Len(output) >= 3)

\* The same for an input with a record or more and a read size that takes in
\* a whole line with its line break.
C18_TerminationWhenPullHoldsLine ==
    (WellFormedInput /\ input # <<>> /\ read_size > LongestLine) =>
        <>(/\ pc = "done"
           /\ pos = Len(input)
           /\ pending = {} /\ running = {}
           /\ Len(output) >= 3)

====
